---------------------------- MODULE Spec2Model ----------------------------
(***************************************************************************)
(* A model of src/python/age_detector.py: the AgeDetector estimator        *)
(* (__init__, _add_prior_knowledge, fit, predict) and the cross-validation *)
(* driver run_cv_pred.                                                     *)
(*                                                                         *)
(* Numbers.  numpy computes in float64; the model computes the same        *)
(* expressions in exact rational arithmetic (records [n, d], d > 0, in     *)
(* lowest terms).  log(PRIOR) and exp() are kept symbolic: a joint score   *)
(* is r + k*log(1/n_classes), a probability is exp(e)/Z.                   *)
(***************************************************************************)
EXTENDS Integers, Sequences, FiniteSets, TLC

\* ------------------------------------------------------------- bounds
MaxRows == 3        \* rows of the loaded data set (Spec)
NFeatures == 2      \* columns of the loaded feature matrix (Spec)
MaxClasses == 2     \* largest n_classes an AgeDetector is built with (Spec)
SmallRows == 2      \* rows of the loaded data set (SpecValid)
SmallFeatures == 1  \* columns of the feature matrix (SpecValid)
SmallClasses == 2   \* largest n_classes (SpecValid)
FnRows == 2         \* rows of the data set (SpecPredict, SpecMono)
FnFeatures == 2     \* columns of the feature matrix (SpecPredict, SpecMono)
FnClasses == 2      \* largest n_classes (SpecPredict, SpecMono)
CVRows == 3         \* rows of the data set handed to run_cv_pred (SpecCV)
CVFeatures == 1     \* columns of its feature matrix (SpecCV)
CVLabels == 2       \* largest label in its label vector (SpecCV)

\* --------------------------------------------------- program constants
SmoothingDivisor == 10   \* b = total_counts / 10.0
LaplaceTerm == 1         \* total_counts + a + 1
DefaultFolds == 3        \* -nfolds, default=3

VARIABLES
    n_classes,      \* self.n_classes
    PRIOR,          \* self.PRIOR
    model,          \* self.model: None, or a matrix (sequence of rows) of rationals
    X,              \* the loaded feature matrix (rows of 0/1)
    y,              \* the loaded label vector
    ret,            \* outcome of the last fit/predict call
    age_preds_csv,  \* contents of the file age_preds.csv
    more,           \* SpecMono: the model fitted on X with one more follow set
    cv              \* SpecCV: the frame of run_cv_pred

vars == <<n_classes, PRIOR, model, X, y, ret, age_preds_csv, more, cv>>

\* Python's None (an unset model, no predictions); no matrix or vector of the
\* model is empty, so the empty tuple stands for it
None == <<>>
\* the call returned normally
NoError == "NoError"
IndexError == "IndexError"

\* -------------------------------------------------- exact rationals
Abs(i) == IF i < 0 THEN -i ELSE i

RECURSIVE GCD(_, _)
GCD(a, b) == IF b = 0 THEN a ELSE GCD(b, a % b)

Rat(n, d) == LET g == GCD(Abs(n), d) IN [n |-> n \div g, d |-> d \div g]
FromInt(i) == [n |-> i, d |-> 1]
RAdd(a, b) ==
    LET g == GCD(a.d, b.d)
        l == (a.d \div g) * b.d
    IN  Rat(a.n * (l \div a.d) + b.n * (l \div b.d), l)
RNeg(a) == [n |-> -a.n, d |-> a.d]
RSub(a, b) == RAdd(a, RNeg(b))
RMul(a, b) == Rat(a.n * b.n, a.d * b.d)
\* b # 0 wherever the code divides
RDiv(a, b) == IF b.n > 0 THEN Rat(a.n * b.d, a.d * b.n)
                         ELSE Rat(-(a.n * b.d), a.d * (-b.n))

\* a < b for a, b >= 0, by continued fractions (no cross products)
RECURSIVE RLessNN(_, _)
RLessNN(a, b) ==
    LET qa == a.n \div a.d
        qb == b.n \div b.d
        ra == a.n % a.d
        rb == b.n % b.d
    IN  IF qa # qb THEN qa < qb
        ELSE IF rb = 0 THEN FALSE
        ELSE IF ra = 0 THEN TRUE
        ELSE RLessNN([n |-> b.d, d |-> rb], [n |-> a.d, d |-> ra])

RLess(a, b) ==
    IF a.n < 0
    THEN IF b.n < 0 THEN RLessNN(RNeg(b), RNeg(a)) ELSE TRUE
    ELSE IF b.n < 0 THEN FALSE ELSE RLessNN(a, b)

\* ------------------------------------------------- small array helpers
RECURSIVE SumSeq(_)
SumSeq(s) == IF s = <<>> THEN 0 ELSE Head(s) + SumSeq(Tail(s))

RECURSIVE RSumSeq(_)
RSumSeq(s) == IF s = <<>> THEN FromInt(0) ELSE RAdd(Head(s), RSumSeq(Tail(s)))

\* a set of integers as the ascending sequence numpy returns
RECURSIVE SortedSeq(_)
SortedSeq(S) ==
    IF S = {} THEN <<>>
    ELSE LET m == CHOOSE v \in S : \A w \in S : v <= w
         IN  <<m>> \o SortedSeq(S \ {m})

\* A[idx] for an index array idx (a sequence of row numbers, 1-based)
Take(A, idx) == [k \in 1..Len(idx) |-> A[idx[k]]]

Matrices(rows, cols) == [1..rows -> [1..cols -> {0, 1}]]


\* ------------------------------------------------------------ __init__
\* [1.0 / self.n_classes] * self.n_classes
UniformPrior(n) == [k \in 1..n |-> Rat(1, n)]

\* ----------------------------------------------------------------- fit
\* bins, counts = np.unique(y, return_counts=True)
np_unique(yv) ==
    LET bins == SortedSeq({yv[i] : i \in 1..Len(yv)})
    IN  [bins |-> bins,
         counts |-> [k \in 1..Len(bins) |->
                        Cardinality({i \in 1..Len(yv) : yv[i] = bins[k]})]]

\* numpy's index i on an axis of length n: the 0-based position, negative
\* indices counting from the end, or IndexError
NumpyIndex(i, n) ==
    IF i >= 0 /\ i < n THEN [err |-> NoError, at |-> i]
    ELSE IF i < 0 /\ i >= -n THEN [err |-> NoError, at |-> i + n]
    ELSE [err |-> IndexError, at |-> 0]

\* a variant that counts the rows of the class whatever they follow
ColumnSumsOfMask(Xv, yv, cat, n_features) ==
    [j \in 1..n_features |->
        SumSeq([i \in 1..Len(yv) |-> IF yv[i] = cat THEN 1 ELSE 0])]

\* mask = y == cat; sums = X[mask, :].sum(axis=0)
ColumnSums(Xv, yv, cat, n_features) ==
    [j \in 1..n_features |->
        SumSeq([i \in 1..Len(yv) |-> IF yv[i] = cat THEN Xv[i][j] ELSE 0])]

\* for cat in bins: pos_counts[cat - 1, :] = sums   (from the k-th bin on)
RECURSIVE FillPosCounts(_, _, _, _, _, _)
FillPosCounts(pos_counts, bins, k, Xv, yv, n_features) ==
    IF k > Len(bins) THEN [err |-> NoError, pos_counts |-> pos_counts]
    ELSE LET r == NumpyIndex(bins[k] - 1, Len(pos_counts))
         IN  IF r.err # NoError THEN [err |-> r.err, pos_counts |-> None]
             ELSE FillPosCounts(
                    [pos_counts EXCEPT ![r.at + 1] = ColumnSums(Xv, yv, bins[k], n_features)],
                    bins, k + 1, Xv, yv, n_features)

\* _add_prior_knowledge: the pair (pos_counts, total_counts) it returns
add_prior_knowledge(pos_counts, bucket_counts, n_data) ==
    LET n_cats == Len(pos_counts)
        n_features == Len(pos_counts[1])
        total_counts == [i \in 1..n_cats |-> [j \in 1..n_features |->
                            FromInt(bucket_counts[i])]]
        b == [i \in 1..n_cats |-> [j \in 1..n_features |->
                RDiv(total_counts[i][j], FromInt(SmoothingDivisor))]]
        n_followers == [j \in 1..n_features |->
                SumSeq([i \in 1..n_cats |-> pos_counts[i][j]])]
        a == [i \in 1..n_cats |-> [j \in 1..n_features |->
                RDiv(RMul(b[i][j], FromInt(n_followers[j])), FromInt(n_data))]]
    IN  [pos_counts |-> [i \in 1..n_cats |-> [j \in 1..n_features |->
                RAdd(FromInt(pos_counts[i][j]), a[i][j])]],
         total_counts |-> [i \in 1..n_cats |-> [j \in 1..n_features |->
                RAdd(RAdd(total_counts[i][j], a[i][j]), FromInt(LaplaceTerm))]]]

\* the body of fit: [err, model]; err is NoError and model the matrix stored in
\* self.model, or err is the exception raised and nothing is stored
FitOutcome(Xv, yv) ==
    LET u == np_unique(yv)
        n_cats == Len(u.bins)
        n_data == Len(Xv)
        n_features == Len(Xv[1])
        zeros == [i \in 1..n_cats |-> [j \in 1..n_features |-> 0]]
        filled == FillPosCounts(zeros, u.bins, 1, Xv, yv, n_features)
    IN  IF filled.err # NoError THEN [err |-> filled.err, model |-> None]
        ELSE LET pk == add_prior_knowledge(filled.pos_counts, u.counts, n_data)
             IN  [err |-> NoError,
                  model |-> [i \in 1..n_cats |-> [j \in 1..n_features |->
                        RDiv(pk.pos_counts[i][j], pk.total_counts[i][j])]]]

\* a variant that keeps a model once it is there
StoreModelOnce(old, new) == IF old = None THEN new ELSE old

\* self.model = ... : the assignment replaces the attribute
StoreModel(old, new) == new

\* ------------------------------------------------------------- predict
\* joint[row, :] += self.model[:, col] over the non-zero entries of one row
JointRow(m, xrow) ==
    [c \in 1..Len(m) |->
        RSumSeq([j \in 1..Len(xrow) |-> IF xrow[j] # 0 THEN m[c][j] ELSE FromInt(0)])]

\* joint += np.log(self.PRIOR): the shapes (rows, n_cats) and (n_classes,)
\* must broadcast in place
BroadcastOK(n_cats, prior) == Len(prior) = n_cats \/ Len(prior) = 1

\* a joint score r + k*log(1/n_classes); every PRIOR entry is 1/n_classes
AddLogPrior(jrow, prior) ==
    [c \in 1..Len(jrow) |-> [r |-> jrow[c], k |-> 1]]

\* s < t for two scores carrying the same multiple of log(1/n_classes)
ScoreLess(s, t) == s.k = t.k /\ RLess(s.r, t.r)

\* np.max(joint, axis=1)
RowMax(srow) == srow[CHOOSE c \in 1..Len(srow) : \A d \in 1..Len(srow) : ~ScoreLess(srow[c], srow[d])]

\* joint -= max
SubMax(srow) ==
    LET mx == RowMax(srow)
    IN  [c \in 1..Len(srow) |-> [r |-> RSub(srow[c].r, mx.r), k |-> srow[c].k - mx.k]]

\* probs = np.exp(joint); probs / normaliser: the value exp(e) / sum of exp(z[i]),
\* kept as the exponent e and the exponents z of the normaliser
ExpNormalise(drow) ==
    [c \in 1..Len(drow) |-> [e |-> drow[c], z |-> drow]]

\* p < q for two entries of one normalised row: exp is strictly increasing and
\* the normaliser is the same positive number
ProbLess(p, q) == p.z = q.z /\ ScoreLess(p.e, q.e)

\* a variant that takes the last maximum
ArgMaxLast(prow) ==
    (CHOOSE c \in 1..Len(prow) :
        /\ \A d \in 1..Len(prow) : ~ProbLess(prow[c], prow[d])
        /\ \A d \in (c + 1)..Len(prow) : ProbLess(prow[d], prow[c])) - 1

\* np.argmax: the 0-based position of the first maximum
ArgMax(prow) ==
    (CHOOSE c \in 1..Len(prow) :
        /\ \A d \in 1..Len(prow) : ~ProbLess(prow[c], prow[d])
        /\ \A d \in 1..(c - 1) : ProbLess(prow[d], prow[c])) - 1

\* the body of predict: [err, preds]
PredictOutcome(m, prior, Xv) ==
    IF m = None THEN [err |-> "AttributeError", preds |-> None]
    ELSE IF ~BroadcastOK(Len(m), prior) THEN [err |-> "ValueError", preds |-> None]
    ELSE [err |-> NoError,
          preds |-> [i \in 1..Len(Xv) |->
                ArgMax(ExpNormalise(SubMax(AddLogPrior(JointRow(m, Xv[i]), prior)))) + 1]]

\* ------------------------------------------------------ the estimator
\* the leading slices [0, ..., k-1] of n rows, as 1-based index arrays
Slices(n) == {[i \in 1..k |-> i] : k \in 1..n}

\* AgeDetector(n_classes) just built, with the data loaded beside it
Constructed(classes, rows, features, labels) ==
    /\ n_classes \in classes
    /\ PRIOR = UniformPrior(n_classes)
    /\ model = None
    /\ \E n \in rows :
          /\ X \in Matrices(n, features)
          /\ y \in [1..n -> IF labels = {} THEN 1..n_classes ELSE labels]
    /\ ret = [op |-> "init", idx |-> <<>>, err |-> NoError, preds |-> None]
    /\ age_preds_csv = None

NoMore == [row |-> 0, col |-> 0, model |-> None]

\* run_cv_pred is not running
NoCV == [pc |-> "idle", n_folds |-> 0, test_folds |-> <<>>, fold |-> 0,
         train_index |-> <<>>, y_pred |-> <<>>, writes |-> <<>>, held_out |-> <<>>]

\* any label, also 0 and n_classes + 1
Init ==
    /\ Constructed(2..MaxClasses, 1..MaxRows, NFeatures, 0..(MaxClasses + 1))
    /\ more = NoMore
    /\ cv = NoCV

\* labels in [1, n_classes] only
InitValid ==
    /\ Constructed(2..SmallClasses, 1..SmallRows, SmallFeatures, {})
    /\ more = NoMore
    /\ cv = NoCV

InitFn ==
    /\ Constructed(2..FnClasses, 1..FnRows, FnFeatures, {})
    /\ more = NoMore
    /\ cv = NoCV

\* clf.fit(X[idx], y[idx])
Fit(idx) ==
    LET out == FitOutcome(Take(X, idx), Take(y, idx))
    IN  /\ model' = IF out.err = NoError THEN StoreModel(model, out.model) ELSE model
        /\ ret' = [op |-> "fit", idx |-> idx, err |-> out.err, preds |-> None]
        /\ UNCHANGED <<n_classes, PRIOR, X, y, age_preds_csv, more, cv>>

\* clf.predict(X)
Predict ==
    LET out == PredictOutcome(model, PRIOR, X)
    IN  /\ ret' = [op |-> "predict", idx |-> [i \in 1..Len(X) |-> i],
                   err |-> out.err, preds |-> out.preds]
        /\ age_preds_csv' = IF out.err = NoError THEN out.preds ELSE age_preds_csv
        /\ UNCHANGED <<n_classes, PRIOR, model, X, y, more, cv>>

Next ==
    \/ \E idx \in Slices(Len(X)) : Fit(idx)
    \/ Predict

Spec == Init /\ [][Next]_vars

\* the estimator's life on data whose labels are all in [1, n_classes]
SpecValid == InitValid /\ [][Next]_vars

\* X with the entry (i, j) set
WithFollow(Xv, i, j) == [Xv EXCEPT ![i][j] = 1]

\* two estimators fitted side by side: one on (X, y), one on the same data in
\* which row i follows one more account, j
FitBoth(i, j) ==
    LET lo == FitOutcome(X, y)
        hi == FitOutcome(WithFollow(X, i, j), y)
    IN  /\ ret.op = "init"
        /\ X[i][j] = 0
        /\ model' = IF lo.err = NoError THEN StoreModel(model, lo.model) ELSE model
        /\ more' = [row |-> i, col |-> j, model |-> StoreModel(None, hi.model)]
        /\ ret' = [op |-> "fit", idx |-> [k \in 1..Len(X) |-> k],
                   err |-> lo.err, preds |-> None]
        /\ UNCHANGED <<n_classes, PRIOR, X, y, age_preds_csv, cv>>

NextMono == \E i \in 1..Len(X) : \E j \in 1..Len(X[1]) : FitBoth(i, j)

SpecMono == InitFn /\ [][NextMono]_vars

\* one fit, then one predict
NextPredict ==
    \/ ret.op = "init" /\ \E idx \in Slices(Len(X)) : Fit(idx)
    \/ ret.op = "fit" /\ Predict

SpecPredict == InitFn /\ [][NextPredict]_vars

\* --------------------------------------------------------- run_cv_pred
\* a user follows none of the accounts, or all of them
Profiles(n_features) == {[j \in 1..n_features |-> 0], [j \in 1..n_features |-> 1]}

\* the largest number of rows of one label
MaxClassCount(yv) ==
    LET u == np_unique(yv)
    IN  CHOOSE m \in {u.counts[k] : k \in 1..Len(u.counts)} :
            \A k \in 1..Len(u.counts) : u.counts[k] <= m

\* StratifiedKFold(n_splits, shuffle=True).split(X, y): the test fold of every
\* row, for any shuffle.  Each label's rows are dealt to the folds evenly (the
\* folds' counts of one label differ by at most one).
StratifiedSplits(yv, n_splits) ==
    {tf \in [1..Len(yv) -> 1..n_splits] :
        \A c \in {yv[i] : i \in 1..Len(yv)} : \A f, g \in 1..n_splits :
            Cardinality({i \in 1..Len(yv) : yv[i] = c /\ tf[i] = f})
              <= Cardinality({i \in 1..Len(yv) : yv[i] = c /\ tf[i] = g}) + 1}

\* test_index and train_index of one fold
TestIndex(tf, fold) == SortedSeq({i \in 1..Len(tf) : tf[i] = fold})
\* a variant that trains on every row
TrainIndexAll(tf, fold) == SortedSeq({i \in 1..Len(tf) : tf[i] = tf[i]})
TrainIndex(tf, fold) == SortedSeq({i \in 1..Len(tf) : tf[i] # fold})

\* the position of row i in an index array that holds it
PositionIn(idx, i) == CHOOSE k \in 1..Len(idx) : idx[k] = i
Holds(idx, i) == \E k \in 1..Len(idx) : idx[k] = i

\* __main__: clf = AgeDetector(len(np.unique(y))); run_cv_pred(x, y, clf, n_folds)
InitCV ==
    /\ \E n \in 2..CVRows :
          /\ X \in [1..n -> Profiles(CVFeatures)]
          /\ y \in [1..n -> 1..CVLabels]
    /\ n_classes = Len(np_unique(y).bins)
    /\ PRIOR = UniformPrior(n_classes)
    /\ model = None
    /\ ret = [op |-> "init", idx |-> <<>>, err |-> NoError, preds |-> None]
    /\ age_preds_csv = None
    /\ more = NoMore
    /\ \E k \in 2..DefaultFolds :
          /\ k <= Len(X)
          /\ cv = [NoCV EXCEPT !.pc = "start", !.n_folds = k]

\* skf.split(X, y); y_pred = y.copy(); the first step of the loop draws the folds
CVStart ==
    /\ cv.pc = "start"
    /\ \/ /\ cv.n_folds > MaxClassCount(y)
          /\ cv' = [cv EXCEPT !.pc = "raised"]
       \/ /\ cv.n_folds <= MaxClassCount(y)
          /\ \E tf \in StratifiedSplits(y, cv.n_folds) :
                cv' = [cv EXCEPT !.pc = "loop", !.test_folds = tf, !.fold = 1,
                                 !.y_pred = y,
                                 !.writes = [i \in 1..Len(y) |-> 0],
                                 !.held_out = [i \in 1..Len(y) |-> FALSE]]
    /\ UNCHANGED <<n_classes, PRIOR, model, X, y, ret, age_preds_csv, more>>

\* X_train, y_train = X[train_index], y[train_index]; clf.fit(X_train, y_train)
CVFit ==
    LET train_index == TrainIndex(cv.test_folds, cv.fold)
        out == FitOutcome(Take(X, train_index), Take(y, train_index))
    IN  /\ cv.pc = "loop"
        /\ model' = IF out.err = NoError THEN StoreModel(model, out.model) ELSE model
        /\ ret' = [op |-> "fit", idx |-> train_index, err |-> out.err, preds |-> None]
        /\ cv' = IF out.err = NoError
                  THEN [cv EXCEPT !.pc = "fitted", !.train_index = train_index]
                  ELSE [cv EXCEPT !.pc = "raised"]
        /\ UNCHANGED <<n_classes, PRIOR, X, y, age_preds_csv, more>>

\* preds = clf.predict(X_test); ...; y_pred[test_index] = preds; after the last
\* fold, return y_pred
CVPredict ==
    LET test_index == TestIndex(cv.test_folds, cv.fold)
        out == PredictOutcome(model, PRIOR, Take(X, test_index))
    IN  /\ cv.pc = "fitted"
        /\ ret' = [op |-> "predict", idx |-> test_index, err |-> out.err,
                   preds |-> out.preds]
        /\ age_preds_csv' = IF out.err = NoError THEN out.preds ELSE age_preds_csv
        /\ cv' = IF out.err # NoError THEN [cv EXCEPT !.pc = "raised"]
                  ELSE [cv EXCEPT
                    !.pc = IF cv.fold = cv.n_folds THEN "done" ELSE "loop",
                    !.fold = cv.fold + 1,
                    !.y_pred = [i \in 1..Len(y) |->
                        IF Holds(test_index, i) THEN out.preds[PositionIn(test_index, i)]
                        ELSE cv.y_pred[i]],
                    !.writes = [i \in 1..Len(y) |->
                        IF Holds(test_index, i) THEN cv.writes[i] + 1 ELSE cv.writes[i]],
                    !.held_out = [i \in 1..Len(y) |->
                        IF Holds(test_index, i) THEN ~Holds(cv.train_index, i)
                        ELSE cv.held_out[i]]]
        /\ UNCHANGED <<n_classes, PRIOR, model, X, y, more>>

NextCV == CVStart \/ CVFit \/ CVPredict

SpecCV == InitCV /\ [][NextCV]_vars

\* ------------------------------------------------- vocabulary of the claims
\* every label of v lies in [1, n_classes]
ValidLabels(v) == \A i \in 1..Len(v) : v[i] \in 1..n_classes

\* the last call was fit / predict and it returned normally
FitReturned == ret.op = "fit" /\ ret.err = NoError
PredictReturned == ret.op = "predict" /\ ret.err = NoError

\* the arguments of the last call
ArgX == Take(X, ret.idx)
ArgY == Take(y, ret.idx)

RLeq(a, b) == ~RLess(b, a)

\* the error kind the specification asks of predict on an unfitted estimator;
\* the code never raises it
NotTrainedError == "NotTrainedError"

\* the number of rows of Xv, labelled yv, that are of class c and have feature j
PositiveCount(Xv, yv, c, j) ==
    Cardinality({i \in 1..Len(yv) : yv[i] = c /\ Xv[i][j] = 1})
ClassCount(yv, c) == Cardinality({i \in 1..Len(yv) : yv[i] = c})
Followers(Xv, j) == Cardinality({i \in 1..Len(Xv) : Xv[i][j] = 1})

\* (m + a) / (n_c + a + 1) with a = (n_c / 10) * followers / n_samples, in one
\* fraction: numerator and denominator multiplied by 10 * n_samples
SmoothedEstimate(Xv, yv, c, j) ==
    LET m == PositiveCount(Xv, yv, c, j)
        nc == ClassCount(yv, c)
        f == Followers(Xv, j)
        n == Len(Xv)
    IN  Rat(10 * n * m + nc * f, 10 * n * nc + nc * f + 10 * n)

\* the product of the model's entries of class c over the present features of xrow
RECURSIVE LikelihoodFrom(_, _, _, _)
LikelihoodFrom(m, c, xrow, j) ==
    IF j > Len(xrow) THEN FromInt(1)
    ELSE IF xrow[j] = 1 THEN RMul(m[c][j], LikelihoodFrom(m, c, xrow, j + 1))
    ELSE LikelihoodFrom(m, c, xrow, j + 1)
Likelihood(m, c, xrow) == LikelihoodFrom(m, c, xrow, 1)

\* the sum of the model's entries of class c over the present features of xrow
RECURSIVE RawScoreFrom(_, _, _, _)
RawScoreFrom(m, c, xrow, j) ==
    IF j > Len(xrow) THEN FromInt(0)
    ELSE IF xrow[j] = 1 THEN RAdd(m[c][j], RawScoreFrom(m, c, xrow, j + 1))
    ELSE RawScoreFrom(m, c, xrow, j + 1)
RawScore(m, c, xrow) == RawScoreFrom(m, c, xrow, 1)

\* ---------------------------------------------------------------- C1
\* C1: after fit on labels in [1, n_classes], every entry of the stored model
\* is strictly between 0 and 1.
C1_EntriesStrictlyInside ==
    (FitReturned /\ ValidLabels(ArgY)) =>
        \A c \in 1..Len(model) : \A j \in 1..Len(model[c]) :
            RLess(FromInt(0), model[c][j]) /\ RLess(model[c][j], FromInt(1))

\* ---------------------------------------------------------------- C2
\* C2: an estimator fitted on labels in [1, n_classes] (some classes possibly
\* unused) predicts without error one label in [1, n_classes] per row.
C2_PredictTotalOnValidFit ==
    (ret.op = "predict" /\ model # None /\ ValidLabels(y)) =>
        /\ ret.err = NoError
        /\ Len(ret.preds) = Len(X)
        /\ \A i \in 1..Len(X) : ret.preds[i] \in 1..n_classes

\* ---------------------------------------------------------------- C3
\* C3: the returned class maximises, under the uniform prior, the product of
\* the model probabilities of the row's present features (the sum of their
\* logarithms).
C3_MaximisesNaiveBayesLikelihood ==
    (PredictReturned /\ ValidLabels(y)) =>
        \A i \in 1..Len(X) : \A c \in 1..Len(model) :
            RLeq(Likelihood(model, c, X[i]), Likelihood(model, ret.preds[i], X[i]))

\* ---------------------------------------------------------------- C4
\* C4: predict on an estimator with no fitted model fails with the explicit
\* not-trained error and returns no predictions.
C4_UntrainedPredictIsExplicit ==
    (ret.op = "predict" /\ model = None) =>
        ret.err = NotTrainedError /\ ret.preds = None

\* ---------------------------------------------------------------- C5
\* C5: fit fails, storing nothing, whenever some label is outside
\* [1, n_classes] or there are more distinct labels than n_classes.
C5_BadLabelsRejected ==
    (ret.op = "fit" /\
        (~ValidLabels(ArgY) \/ Len(np_unique(ArgY).bins) > n_classes)) =>
        ret.err # NoError

\* ---------------------------------------------------------------- C9
\* C9: after fit on labels in [1, n_classes] the model has n_classes rows and
\* row c-1, column j holds (m + a) / (n_c + a + 1) of class c's own counts.
C9_ModelIsSmoothedTable ==
    (ret.op = "fit" /\ ValidLabels(ArgY)) =>
        /\ ret.err = NoError
        /\ Len(model) = n_classes
        /\ \A c \in 1..n_classes : \A j \in 1..Len(ArgX[1]) :
              model[c][j] = SmoothedEstimate(ArgX, ArgY, c, j)

\* ---------------------------------------------------------------- C7
\* C7: after any calls, a fit that returns leaves exactly the model a fresh
\* estimator would hold after that one fit: the smoothed table of that call's
\* (X, y) alone.
C7_FitReplacesModel ==
    FitReturned =>
        /\ model = StoreModel(None, FitOutcome(ArgX, ArgY).model)
        /\ Len(model) = Len(np_unique(ArgY).bins)
        /\ \A c \in 1..Len(model) : \A j \in 1..Len(ArgX[1]) :
              model[c][j] = SmoothedEstimate(ArgX, ArgY, c, j)

\* a fit returned on an estimator that had been fitted on other rows and used
C7_Witness ==
    /\ FitReturned
    /\ age_preds_csv # None
    /\ Len(ret.idx) < Len(X)

\* ---------------------------------------------------------------- C8
\* C8: with one more row of class c following account j, all else equal, the
\* model entry of (c, j) is strictly larger.
C8_MonotoneInPositiveCount ==
    (more # NoMore /\ FitReturned) =>
        RLess(model[y[more.row]][more.col], more.model[y[more.row]][more.col])

\* both fits returned, on data with two classes in which account j already had
\* a follower
C8_Witness ==
    /\ more # NoMore
    /\ FitReturned
    /\ Len(model) = 2
    /\ Followers(X, more.col) > 0

\* ---------------------------------------------------------------- C6
\* the prediction of row i by an estimator fitted on the rows outside i's fold
HeldOutPrediction(i) ==
    LET train_index == TrainIndex(cv.test_folds, cv.test_folds[i])
        m == FitOutcome(Take(X, train_index), Take(y, train_index)).model
    IN  PredictOutcome(m, PRIOR, <<X[i]>>).preds[1]

FirstBest(m, xrow) ==
    CHOOSE c \in 1..Len(m) :
        /\ \A d \in 1..Len(m) : RLeq(RawScore(m, d, xrow), RawScore(m, c, xrow))
        /\ \A d \in 1..(c - 1) : RLess(RawScore(m, d, xrow), RawScore(m, c, xrow))

============================================================================
